---- MODULE Spec2Model ----
(***************************************************************************)
(* Conversation controller of MedLingua Bridge (MAliSheikh/HealthCare).    *)
(*                                                                         *)
(* Two snapshots of the page component live in the repository:             *)
(*   variant = "toggle"  src/src/pages/Index.tsx with                      *)
(*                       src/src/hooks/useTranslation.ts (placeholder      *)
(*                       fetch) : Switch Roles button, debounced           *)
(*                       auto-speak, lastSpokenTranslation gate;           *)
(*   variant = "tab"     src/unnamed/part_000 with src/unnamed/part_002    *)
(*                       (Groq completion) : Patient/Provider tabs,        *)
(*                       manual speak, hasSpokenOnce gate.                 *)
(* Both use the text-to-speech hook of src/unnamed/part_001.               *)
(*                                                                         *)
(* A text is a sequence of tokens; " " is the whitespace token, so that    *)
(* String.prototype.trim, the placeholder template and the fallback to the *)
(* original text are computed rather than assumed.                         *)
(*                                                                         *)
(* React batches the state setters of one handler, re-renders, and runs    *)
(* the auto-translate effect when one of its dependencies changed; one     *)
(* action is one handler together with that re-render and effect run.      *)
(***************************************************************************)
EXTENDS Integers, Sequences, FiniteSets, Bags, TLC

VARIABLES
    variant,                \* which snapshot of the page is running
    activeTab,              \* part_000:25
    sourceLanguage,         \* Index.tsx:25, part_000:28
    targetLanguage,         \* Index.tsx:26, part_000:29
    originalText,           \* Index.tsx:29, part_000:32
    translatedText,         \* Index.tsx:30, part_000:33
    isTranslating,          \* useTranslation.ts:16, part_002:16
    isSpeaking,             \* part_001:16
    speakTimeout,           \* Index.tsx:38 : the closures of the pending timers
    lastSpokenTranslation,  \* Index.tsx:39
    hasSpokenOnce,          \* part_000:43
    inflight,               \* bag of the translation requests awaiting the remote service
    synth,                  \* window.speechSynthesis : what the engine holds
    isRecording,            \* Index.tsx:33, part_000:36
    isProcessing,           \* VoiceRecorder.tsx:21
    recognition,            \* VoiceRecorder.tsx:22 : the session of the object in
                            \* recognitionRef.current
    orphans,                \* the sessions of recognition objects the effect has replaced
    observed,               \* whether toasts, lastEvent and every handler's name
                            \* are recorded
    toasts,                 \* the notifications raised by the last step that
                            \* changed something
    lastEvent,              \* the collaborator call or event of that step
    speakCalls,             \* speechSynthesis.speak calls since translatedText last changed value
    lastOp,                 \* the handler that last changed something, when it is a
                            \* role switch or handleSpeak; "other" otherwise
    switchHistory           \* while lastOp is a role switch: activeTab and the languages
                            \* as they were before each of the last (at most two)
                            \* consecutive role switches, oldest first; <<>> otherwise

vars == <<variant, activeTab, sourceLanguage, targetLanguage, originalText,
          translatedText, isTranslating, isSpeaking, speakTimeout,
          lastSpokenTranslation, hasSpokenOnce, inflight, synth, isRecording,
          isProcessing, recognition, orphans, observed, toasts, lastEvent,
          speakCalls,
          lastOp, switchHistory>>

(***************************************************************************)
(* Bounds                                                                  *)
(***************************************************************************)
MaxInflight == 2      \* translation requests outstanding at once
MaxSpeakCalls == 2    \* speak calls counted between two changes of translatedText
MaxOrphans == 1       \* replaced recognition objects whose session is not over

Variants == {"toggle", "tab"}
Languages == {"en", "es"}
Tabs == {"patient", "provider"}
\* what the recogniser delivers: a blank fragment and two utterances
Fragments == {<<" ">>, <<"a">>, <<"b">>}

(***************************************************************************)
(* Strings                                                                 *)
(***************************************************************************)
RECURSIVE TrimStart(_)
TrimStart(s) ==
    IF s = <<>> THEN <<>>
    ELSE IF Head(s) = " " THEN TrimStart(Tail(s)) ELSE s

RECURSIVE TrimEnd(_)
TrimEnd(s) ==
    IF s = <<>> THEN <<>>
    ELSE IF s[Len(s)] = " " THEN TrimEnd(SubSeq(s, 1, Len(s) - 1)) ELSE s

\* a trim that forgets to strip anything
TrimIdentity(s) == s

\* String.prototype.trim
Trim(s) == TrimEnd(TrimStart(s))

\* toLang.toUpperCase()
ToUpperCase(l) == CASE l = "en" -> "EN" [] l = "es" -> "ES" [] OTHER -> l

(***************************************************************************)
(* Translation Collaborator                                                *)
(***************************************************************************)
\* how a remote call can end: useTranslation.ts:33-46 (fetch) and
\* part_002:62-84 (Groq completion, thrown 401 / 429 / other errors)
Outcomes ==
    IF variant = "toggle" THEN {"ok", "unavailable"}
    ELSE {"ok", "empty", "unauthorized", "ratelimited", "unavailable"}

\* error.message of what translationService.chat.completions.create throws:
\* the SDK puts the HTTP status first, then the body of the answer; digits
\* are single tokens
ErrorMessage(outcome) ==
    CASE outcome = "unauthorized" ->
            <<"4", "0", "1", " ", "Invalid API Key">>
      [] outcome = "ratelimited" ->
            <<"4", "2", "9", " ", "Rate limit reached">>
      [] OTHER -> <<"5", "0", "3", " ", "Service Unavailable">>

\* String.prototype.includes
Includes(s, pattern) ==
    \E i \in 0..(Len(s) - Len(pattern)) :
        SubSeq(s, i + 1, i + Len(pattern)) = pattern

\* useTranslation.ts:40-54 : the placeholder template, or the original text
PlaceholderResult(text, to, outcome) ==
    IF outcome = "ok" THEN <<"[", ToUpperCase(to), "]", " ">> \o text ELSE text

\* completion.choices[0]?.message?.content as the remote model returns it:
\* a rendering of the text in the target language with a trailing newline,
\* or blank content
GroqContent(text, to, outcome) ==
    IF outcome = "ok" THEN <<to, ":">> \o text \o <<" ">> ELSE <<" ">>

\* part_002:79-105 : the trimmed completion, or the original text when the
\* completion is blank or the call threw
GroqResult(text, to, outcome) ==
    IF outcome \in {"ok", "empty"}
    THEN LET translated == Trim(GroqContent(text, to, outcome))
         IN  IF translated = <<>> THEN text ELSE translated
    ELSE text

\* part_002:82-84 and 88 : the message of the error the catch block gets,
\* <<>> when nothing is thrown
GroqError(text, to, outcome) ==
    IF outcome \in {"ok", "empty"}
    THEN IF Trim(GroqContent(text, to, outcome)) = <<>>
         THEN <<"No translation received">> ELSE <<>>
    ELSE ErrorMessage(outcome)

\* a catch block that does not look at the error
errorMessageGenericOnly(message) ==
    "Unable to translate text. Please try again."

\* part_002:90-98 : the description of the notification
errorMessage(message) ==
    IF Includes(message, <<"4", "0", "1">>)
    THEN "Authentication failed. Please check API configuration."
    ELSE IF Includes(message, <<"4", "2", "9">>)
    THEN "Too many requests. Please try again later."
    ELSE "Unable to translate text. Please try again."

\* the notifications translateText raises: useTranslation.ts:47-53,
\* part_002:88-104
TranslationToasts(req, outcome) ==
    IF variant = "toggle"
    THEN IF outcome = "ok" THEN <<>>
         ELSE <<[title |-> "Translation Error",
                 description |-> "Unable to translate text. Please check your connection and try again."]>>
    ELSE LET message == GroqError(req.text, req.to, outcome)
         IN  IF message = <<>> THEN <<>>
             ELSE <<[title |-> "Translation Error",
                     description |-> errorMessage(message)]>>

\* a translateText that resolves with the text it was given
TranslationResultEcho(req, outcome) == req.text

\* the value the promise of translateText resolves with
TranslationResult(req, outcome) ==
    IF variant = "toggle" THEN PlaceholderResult(req.text, req.to, outcome)
    ELSE GroqResult(req.text, req.to, outcome)

\* translateText(text, fromLang, toLang), called by the effect of a render in
\* which isSpeaking = spk; tt and hso are translatedText and hasSpokenOnce as
\* the handler left them.  A request keeps what decides its result and what
\* its .then reads: the text, toLang (the placeholder ignores fromLang) and,
\* in the toggle page, the isSpeaking its closure captured.
translateText(text, from, to, spk, tt, hso) ==
    IF Trim(text) = <<>>
    THEN \* resolves "" without a remote call; the .then runs in the same turn
         /\ translatedText' = <<>>
         /\ hasSpokenOnce' = IF variant = "tab" THEN FALSE ELSE hso
         /\ UNCHANGED <<inflight, isTranslating>>
    ELSE /\ BagCardinality(inflight) < MaxInflight
         /\ inflight' = inflight (+) SetToBag({
                [text |-> text, to |-> to,
                 isSpeaking |-> IF variant = "toggle" THEN spk ELSE FALSE]})
         /\ isTranslating' = TRUE
         /\ translatedText' = tt
         /\ hasSpokenOnce' = hso

\* the auto-translate effect, run for the committed (ot, sl, tl, spk)
AutoTranslate(ot, sl, tl, spk, tt, hso) ==
    IF Trim(ot) # <<>>
    THEN translateText(ot, sl, tl, spk, tt, hso)
    ELSE /\ translatedText' = <<>>
         /\ hasSpokenOnce' = IF variant = "tab" THEN FALSE ELSE hso
         /\ UNCHANGED <<inflight, isTranslating>>

\* the effect's dependency array
EffectDeps(ot, sl, tl, spk) ==
    IF variant = "toggle" THEN <<ot, sl, tl, spk>> ELSE <<ot, sl, tl>>

RoleSwitches == {"switchRoles", "switchToTab"}

\* the name lastOp keeps for handler op
Named(op) == IF observed \/ op \in RoleSwitches THEN op ELSE "other"

\* no collaborator call or event in this step
NoEvent == [tag |-> "none"]

\* what the page, its hooks and the collaborators hold
program == <<activeTab, sourceLanguage, targetLanguage, originalText,
             translatedText, isTranslating, isSpeaking, speakTimeout,
             lastSpokenTranslation, hasSpokenOnce, inflight, synth, isRecording,
             isProcessing, recognition, orphans>>

\* the record of a step: its notifications and its event
Record(notifications, event) ==
    IF observed THEN toasts' = notifications /\ lastEvent' = event
    ELSE UNCHANGED <<toasts, lastEvent>>

\* a handler that raises no notification and involves no collaborator: when
\* it changes something, nothing is left of the last step's notifications
\* and event
Quiet ==
    IF program' = program THEN UNCHANGED <<toasts, lastEvent>>
    ELSE Record(<<>>, NoEvent)

\* VoiceRecorder.tsx:25-78 : the effect runs again when the language prop
\* (sourceLanguage) changes and puts a new recognition object in
\* recognitionRef.current; it has no cleanup, so a session of the replaced
\* object stays open with its handlers attached
RecognitionEffect(sl) ==
    IF sl # sourceLanguage
    THEN /\ recognition' = "idle"
         /\ IF recognition = "idle" THEN UNCHANGED orphans
            ELSE /\ Len(orphans) < MaxOrphans
                 /\ orphans' = Append(orphans, recognition)
    ELSE UNCHANGED <<recognition, orphans>>

\* the last two elements of a sequence
LastTwo(s) == IF Len(s) <= 2 THEN s ELSE SubSeq(s, Len(s) - 1, Len(s))

\* One handler's batched state updates, the re-render and the effect run:
\* the handler leaves originalText = ot, sourceLanguage = sl,
\* targetLanguage = tl, isSpeaking = spk, translatedText = tt and
\* hasSpokenOnce = hso.
Commit(op, ot, sl, tl, spk, tt, hso) ==
    /\ lastOp' = Named(op)
    /\ switchHistory' =
            IF op \in RoleSwitches
            THEN LastTwo(Append(
                    IF lastOp \in RoleSwitches THEN switchHistory ELSE <<>>,
                    [tab |-> activeTab, source |-> sourceLanguage,
                     target |-> targetLanguage]))
            ELSE <<>>
    /\ originalText' = ot
    /\ sourceLanguage' = sl
    /\ targetLanguage' = tl
    /\ isSpeaking' = spk
    /\ RecognitionEffect(sl)
    /\ IF EffectDeps(ot, sl, tl, spk)
            # EffectDeps(originalText, sourceLanguage, targetLanguage, isSpeaking)
       THEN AutoTranslate(ot, sl, tl, spk, tt, hso)
       ELSE /\ translatedText' = tt
            /\ hasSpokenOnce' = hso
            /\ UNCHANGED <<inflight, isTranslating>>

\* speak calls are counted per value of translatedText; n is the number of
\* speechSynthesis.speak calls of this step
CountSpeak(n) ==
    /\ n > 0 => speakCalls < MaxSpeakCalls
    /\ speakCalls' = IF translatedText' # translatedText THEN 0 ELSE speakCalls + n

(***************************************************************************)
(* Speech Output Collaborator                                              *)
(***************************************************************************)
\* window.speechSynthesis after speak(text, language) of a non-blank text:
\* cancel() drops what the engine holds, whose onerror is then due, and the
\* new utterance is queued
SynthAfterSpeak(s) == IF s = "idle" THEN "pending" ELSE "interrupted"

(***************************************************************************)
(* Initial state: the page as mounted                                      *)
(***************************************************************************)
Mounted(obs) ==
    /\ variant \in Variants
    /\ activeTab = "patient"
    /\ sourceLanguage = "en"
    /\ targetLanguage = "es"
    /\ originalText = <<>>
    /\ translatedText = <<>>
    /\ isTranslating = FALSE
    /\ isSpeaking = FALSE
    /\ speakTimeout = <<>>
    /\ lastSpokenTranslation = <<>>
    /\ hasSpokenOnce = FALSE
    /\ inflight = EmptyBag
    /\ synth = "idle"
    /\ isRecording = FALSE
    /\ isProcessing = FALSE
    /\ recognition = "idle"
    /\ orphans = <<>>
    /\ observed = obs
    /\ toasts = <<>>
    /\ lastEvent = NoEvent
    /\ speakCalls = 0
    /\ lastOp = "other"
    /\ switchHistory = <<>>

Init == Mounted(FALSE)

(***************************************************************************)
(* Transcript handlers                                                     *)
(***************************************************************************)
\* VoiceRecorder onresult -> onTranscript={setOriginalText}
onTranscript(text) ==
    /\ text # <<>>
    /\ Commit("onTranscript", text, sourceLanguage, targetLanguage, isSpeaking,
              translatedText, hasSpokenOnce)
    /\ CountSpeak(0)
    /\ UNCHANGED <<isRecording, isProcessing, variant, observed, activeTab, speakTimeout, lastSpokenTranslation, synth>>
    /\ Quiet

\* Original Transcript panel: onClear={() => setOriginalText("")}
clearOriginal ==
    /\ originalText # <<>>
    /\ Commit("clearOriginal", <<>>, sourceLanguage, targetLanguage, isSpeaking,
              translatedText, hasSpokenOnce)
    /\ CountSpeak(0)
    /\ UNCHANGED <<isRecording, isProcessing, variant, observed, activeTab, speakTimeout, lastSpokenTranslation, synth>>
    /\ Quiet

\* Translation panel: onClear={() => setTranslatedText("")}; the panel shows
\* "Translating..." while isTranslating
clearTranslation ==
    /\ isTranslating \/ translatedText # <<>>
    /\ Commit("clearTranslation", originalText, sourceLanguage, targetLanguage,
              isSpeaking, <<>>, hasSpokenOnce)
    /\ CountSpeak(0)
    /\ UNCHANGED <<isRecording, isProcessing, variant, observed, activeTab, speakTimeout, lastSpokenTranslation, synth>>
    /\ Quiet

\* a Clear All that leaves the SpeakGate as it is
clearTranscriptsKeepingGate ==
    /\ variant = "tab" => (originalText # <<>> \/ translatedText # <<>>)
    /\ Commit("clearTranscripts", <<>>, sourceLanguage, targetLanguage, isSpeaking,
              <<>>, hasSpokenOnce)
    /\ CountSpeak(0)
    /\ UNCHANGED <<isRecording, isProcessing, variant, observed, activeTab,
                   speakTimeout, lastSpokenTranslation, synth>>
    /\ Quiet

\* clearTranscripts: wired to the Clear All button in the tab page, shown
\* while either transcript is non-empty; defined without a button in the
\* toggle page
clearTranscripts ==
    /\ variant = "tab" => (originalText # <<>> \/ translatedText # <<>>)
    /\ Commit("clearTranscripts", <<>>, sourceLanguage, targetLanguage, isSpeaking,
              <<>>, FALSE)
    /\ lastSpokenTranslation' =
            IF variant = "toggle" THEN <<>> ELSE lastSpokenTranslation
    /\ CountSpeak(0)
    /\ UNCHANGED <<isRecording, isProcessing, variant, observed, activeTab, speakTimeout, synth>>
    /\ Quiet

(***************************************************************************)
(* Language and role handlers                                              *)
(***************************************************************************)
\* LanguageSelector onValueChange={setSourceLanguage}
setSourceLanguage(l) ==
    /\ Commit("setSourceLanguage", originalText, l, targetLanguage, isSpeaking,
              translatedText, hasSpokenOnce)
    /\ CountSpeak(0)
    /\ UNCHANGED <<isRecording, isProcessing, variant, observed, activeTab, speakTimeout, lastSpokenTranslation, synth>>
    /\ Quiet

\* LanguageSelector onValueChange={setTargetLanguage}
setTargetLanguage(l) ==
    /\ Commit("setTargetLanguage", originalText, sourceLanguage, l, isSpeaking,
              translatedText, hasSpokenOnce)
    /\ CountSpeak(0)
    /\ UNCHANGED <<isRecording, isProcessing, variant, observed, activeTab, speakTimeout, lastSpokenTranslation, synth>>
    /\ Quiet

\* a swap that loses the temporary
SwapLosingTemp(sl, tl) == [source |-> tl, target |-> tl]

\* const tempLang = sourceLanguage; setSourceLanguage(targetLanguage);
\* setTargetLanguage(tempLang)
SwapLanguages(sl, tl) == [source |-> tl, target |-> sl]

\* switchRoles keeping the transcripts
switchRolesKeepingText ==
    /\ variant = "toggle"
    /\ LET swapped == SwapLanguages(sourceLanguage, targetLanguage)
       IN  Commit("switchRoles", originalText, swapped.source, swapped.target,
                  isSpeaking, translatedText, hasSpokenOnce)
    /\ CountSpeak(0)
    /\ UNCHANGED <<isRecording, isProcessing, variant, observed, activeTab, speakTimeout, lastSpokenTranslation, synth>>
    /\ Quiet

\* Index.tsx switchRoles (Switch Roles button)
switchRoles ==
    /\ variant = "toggle"
    /\ LET swapped == SwapLanguages(sourceLanguage, targetLanguage)
       IN  Commit("switchRoles", <<>>, swapped.source, swapped.target,
                  isSpeaking, <<>>, hasSpokenOnce)
    /\ CountSpeak(0)
    /\ UNCHANGED <<isRecording, isProcessing, variant, observed, activeTab, speakTimeout, lastSpokenTranslation, synth>>
    /\ Quiet

\* the languages switchToTab(tab) sets
switchToTabLanguages(tab, sl, tl) ==
    IF tab = "patient" THEN [source |-> sl, target |-> tl]
    ELSE SwapLanguages(sl, tl)

\* part_000 switchToTab (Patient / Provider tab buttons)
switchToTab(tab) ==
    /\ variant = "tab"
    /\ activeTab' = tab
    /\ LET langs == switchToTabLanguages(tab, sourceLanguage, targetLanguage)
       IN  Commit("switchToTab", <<>>, langs.source, langs.target, isSpeaking,
                  <<>>, FALSE)
    /\ CountSpeak(0)
    /\ UNCHANGED <<isRecording, isProcessing, variant, observed, speakTimeout, lastSpokenTranslation, synth>>
    /\ Quiet

(***************************************************************************)
(* Speaking                                                                *)
(***************************************************************************)
\* a speak check that forgets the gate
handleSpeakAllowedNoGate(spk, tt, last, hso) == ~spk /\ Trim(tt) # <<>>

\* the condition of handleSpeak: Index.tsx:82-86 (text differs from the last
\* spoken one), part_000:84 (hasSpokenOnce not set)
handleSpeakAllowed(spk, tt, last, hso) ==
    /\ ~spk
    /\ Trim(tt) # <<>>
    /\ IF variant = "toggle" THEN tt # last ELSE ~hso

\* the Speak button: shown by TranscriptDisplay when its text is non-empty
\* (toggle page; the text is "Translating..." while isTranslating), or by the
\* page itself when translatedText is non-empty (tab page)
handleSpeak ==
    /\ IF variant = "toggle" THEN isTranslating \/ translatedText # <<>>
       ELSE translatedText # <<>>
    /\ IF handleSpeakAllowed(isSpeaking, translatedText, lastSpokenTranslation,
                             hasSpokenOnce)
       THEN /\ synth' = SynthAfterSpeak(synth)
            /\ lastSpokenTranslation' =
                    IF variant = "toggle" THEN translatedText
                    ELSE lastSpokenTranslation
            /\ hasSpokenOnce' = IF variant = "tab" THEN TRUE ELSE hasSpokenOnce
            /\ UNCHANGED translatedText
            /\ CountSpeak(1)
            /\ Record(<<>>, [tag |-> "speak", text |-> translatedText,
                             lang |-> targetLanguage])
            /\ lastOp' = "handleSpeak"
            /\ switchHistory' = <<>>
       ELSE UNCHANGED <<synth, lastSpokenTranslation, hasSpokenOnce,
                        translatedText, speakCalls, toasts, lastEvent, lastOp,
                        switchHistory>>
    /\ UNCHANGED <<variant, observed, activeTab, sourceLanguage, targetLanguage,
                   originalText,
                   isTranslating, isSpeaking, speakTimeout, inflight, isRecording,
                   isProcessing, recognition, orphans>>

\* a scheduling that forgets clearTimeout
ScheduleWithoutClear(pending, timer) == Append(pending, timer)

\* Index.tsx:53-57 : clearTimeout(speakTimeout.current), which is the timer
\* scheduled last, then setTimeout
ScheduleSpeak(pending, timer) ==
    Append(IF pending = <<>> THEN <<>> ELSE SubSeq(pending, 1, Len(pending) - 1),
           timer)

\* Index.tsx:48-52 : whether the .then of a translation schedules the
\* auto-speak timer; spk is the isSpeaking of the render that issued the call
ShouldAutoSpeak(translation, spk, last) ==
    /\ Trim(translation) # <<>>
    /\ ~spk
    /\ translation # last

\* the remote call of request req ends with outcome; translateText's finally
\* and the .then of the effect that issued it run
translationResolved(req, outcome) ==
    /\ BagIn(req, inflight)
    /\ outcome \in Outcomes
    /\ LET translation == TranslationResult(req, outcome)
       IN  /\ translatedText' = translation
           /\ speakTimeout' =
                IF /\ variant = "toggle"
                   /\ ShouldAutoSpeak(translation, req.isSpeaking,
                                      lastSpokenTranslation)
                THEN ScheduleSpeak(speakTimeout,
                                   [text |-> translation, lang |-> req.to])
                ELSE speakTimeout
    /\ Record(TranslationToasts(req, outcome),
              [tag |-> "translation", request |-> req, outcome |-> outcome,
               pending |-> Len(speakTimeout)])
    /\ hasSpokenOnce' = IF variant = "tab" THEN FALSE ELSE hasSpokenOnce
    /\ inflight' = inflight (-) SetToBag({req})
    /\ isTranslating' = FALSE
    /\ lastOp' = "other"
    /\ switchHistory' = <<>>
    /\ CountSpeak(0)
    /\ UNCHANGED <<variant, observed, activeTab, sourceLanguage, targetLanguage,
                   originalText,
                   isSpeaking, lastSpokenTranslation, synth, isRecording,
                   isProcessing, recognition, orphans>>

\* s without its i-th element
RemoveAt(s, i) == SubSeq(s, 1, i - 1) \o SubSeq(s, i + 1, Len(s))

\* Index.tsx:54-57 : a pending 400ms timer fires
speakTimerFires ==
    /\ variant = "toggle"
    /\ \E i \in 1..Len(speakTimeout) :
        LET timer == speakTimeout[i]
        IN  /\ lastSpokenTranslation' = timer.text
            /\ IF Trim(timer.text) # <<>>
               THEN /\ synth' = SynthAfterSpeak(synth)
                    /\ UNCHANGED translatedText
                    /\ CountSpeak(1)
                    /\ Record(<<>>, [tag |-> "speak", text |-> timer.text,
                                     lang |-> timer.lang])
               ELSE /\ UNCHANGED <<synth, translatedText, speakCalls>>
                    /\ Record(<<>>, NoEvent)
            /\ speakTimeout' = RemoveAt(speakTimeout, i)
    /\ lastOp' = "other"
    /\ switchHistory' = <<>>
    /\ UNCHANGED <<variant, observed, activeTab, sourceLanguage, targetLanguage,
                   originalText,
                   isTranslating, isSpeaking, hasSpokenOnce, inflight, isRecording,
                   isProcessing, recognition, orphans>>

\* utterance.onstart
utteranceOnStart ==
    /\ synth = "pending"
    /\ synth' = "speaking"
    /\ Commit("onstart", originalText, sourceLanguage, targetLanguage, TRUE,
              translatedText, hasSpokenOnce)
    /\ CountSpeak(0)
    /\ UNCHANGED <<isRecording, isProcessing, variant, observed, activeTab, speakTimeout, lastSpokenTranslation>>
    /\ Quiet

\* utterance.onend
utteranceOnEnd ==
    /\ synth = "speaking"
    /\ synth' = "idle"
    /\ Commit("onend", originalText, sourceLanguage, targetLanguage, FALSE,
              translatedText, hasSpokenOnce)
    /\ CountSpeak(0)
    /\ UNCHANGED <<isRecording, isProcessing, variant, observed, activeTab, speakTimeout, lastSpokenTranslation>>
    /\ Quiet

\* SpeechSynthesisErrorEvent.error: the two causes cancel() produces and a
\* synthesis failure
SpeechErrors == {"canceled", "interrupted", "synthesis-failed"}

\* a handler that reports every cause
SpeechErrorToastsAlways(error) ==
    <<[title |-> "Speech Error",
       description |-> "Unable to play audio. Please try again."]>>

\* part_001:36-46 : the notification of utterance.onerror
SpeechErrorToasts(error) ==
    IF error # "canceled" /\ error # "interrupted"
    THEN <<[title |-> "Speech Error",
            description |-> "Unable to play audio. Please try again."]>>
    ELSE <<>>

\* utterance.onerror: "canceled" / "interrupted" is the error of an utterance
\* dropped by cancel(), after which the queued utterance is next;
\* "synthesis-failed" is a failure of the utterance the engine holds
utteranceOnError(kind) ==
    /\ \/ /\ kind \in {"canceled", "interrupted"}
          /\ synth = "interrupted"
          /\ synth' = "pending"
       \/ /\ kind = "synthesis-failed"
          /\ synth \in {"pending", "speaking"}
          /\ synth' = "idle"
    /\ Commit("onerror", originalText, sourceLanguage, targetLanguage, FALSE,
              translatedText, hasSpokenOnce)
    /\ CountSpeak(0)
    /\ Record(SpeechErrorToasts(kind), [tag |-> "utterance.onerror", error |-> kind])
    /\ UNCHANGED <<isRecording, isProcessing, variant, observed, activeTab, speakTimeout, lastSpokenTranslation>>

(***************************************************************************)
(* Speech Capture Collaborator and the VoiceRecorder component             *)
(*                                                                         *)
(* The session of a recognition object is "idle" (not started, or over),   *)
(* "running", "stopping" (stop() called, the end event due) or "failed"    *)
(* (the error event delivered, the end event due).  Object 0 is the one in *)
(* recognitionRef.current, object i > 0 is orphans[i].                     *)
(***************************************************************************)
Objects == 0..Len(orphans)

Session(i) == IF i = 0 THEN recognition ELSE orphans[i]

\* the session of object i becomes st; an orphan whose session is over is
\* garbage
SetSession(i, st) ==
    IF i = 0 THEN recognition' = st /\ UNCHANGED orphans
    ELSE /\ UNCHANGED recognition
         /\ orphans' = IF st = "idle" THEN RemoveAt(orphans, i)
                       ELSE [orphans EXCEPT ![i] = st]

\* the sessions in which the engine is listening
OpenSessions ==
    {i \in Objects : Session(i) \in {"running", "stopping"}}

\* a start that does not look at isRecording
startAllowedAlways(recording) == TRUE

\* VoiceRecorder.tsx:81 (recognitionRef.current is set once the effect ran)
startAllowed(recording) == ~recording

\* VoiceRecorder.tsx:80-86 (onMouseDown / onTouchStart; the button is
\* disabled while isProcessing && !isRecording).  start() on an object
\* whose session is not over throws InvalidStateError after both setters
\* were called.
startRecording ==
    /\ ~(isProcessing /\ ~isRecording)
    /\ IF startAllowed(isRecording)
       THEN /\ isProcessing' = TRUE
            /\ isRecording' = TRUE
            /\ recognition' = IF recognition = "idle" THEN "running"
                              ELSE recognition
            /\ lastOp' = Named("startRecording")
            /\ switchHistory' = <<>>
            /\ Record(<<>>, [tag |-> "recognition.start"])
       ELSE UNCHANGED <<isProcessing, isRecording, recognition, lastOp,
                        switchHistory, toasts, lastEvent>>
    /\ UNCHANGED <<variant, observed, activeTab, sourceLanguage, targetLanguage,
                   originalText, translatedText, isTranslating, isSpeaking,
                   speakTimeout, lastSpokenTranslation, hasSpokenOnce, inflight,
                   synth, orphans, speakCalls>>

\* VoiceRecorder.tsx:88-92 (onMouseUp / onMouseLeave / onTouchEnd): stop()
\* of the object in recognitionRef.current, which does nothing unless that
\* object's session is running
stopRecording ==
    /\ IF isRecording /\ recognition = "running"
       THEN /\ recognition' = "stopping"
            /\ lastOp' = Named("stopRecording")
            /\ switchHistory' = <<>>
            /\ Record(<<>>, [tag |-> "recognition.stop"])
       ELSE UNCHANGED <<recognition, lastOp, switchHistory, toasts, lastEvent>>
    /\ UNCHANGED <<variant, observed, activeTab, sourceLanguage, targetLanguage,
                   originalText, translatedText, isTranslating, isSpeaking,
                   speakTimeout, lastSpokenTranslation, hasSpokenOnce, inflight,
                   synth, isRecording, isProcessing, orphans, speakCalls>>

\* VoiceRecorder.tsx:36-52 : a listening session delivers a fragment
recognitionOnResult(i, text) ==
    /\ i \in OpenSessions
    /\ onTranscript(text)

\* an onerror handler that notifies nobody
RecognitionErrorToastsNone == <<>>

\* VoiceRecorder.tsx:58-62
RecognitionErrorToasts ==
    <<[title |-> "Recognition Error",
       description |-> "There was an issue with speech recognition. Please try again."]>>

\* VoiceRecorder.tsx:54-63 : the engine reports an error of a listening
\* session; its end event follows
recognitionOnError(i) ==
    /\ i \in OpenSessions
    /\ SetSession(i, "failed")
    /\ isProcessing' = FALSE
    /\ isRecording' = FALSE
    /\ lastOp' = Named("recognition.onerror")
    /\ switchHistory' = <<>>
    /\ Record(RecognitionErrorToasts,
              [tag |-> "recognition.onerror", recording |-> isRecording])
    /\ UNCHANGED <<variant, observed, activeTab, sourceLanguage, targetLanguage,
                   originalText, translatedText, isTranslating, isSpeaking,
                   speakTimeout, lastSpokenTranslation, hasSpokenOnce, inflight,
                   synth, speakCalls>>

\* VoiceRecorder.tsx:65-68 : the session of object i is over (after stop(),
\* after an error, or ended by the engine)
recognitionOnEnd(i) ==
    /\ i \in Objects
    /\ Session(i) # "idle"
    /\ SetSession(i, "idle")
    /\ isProcessing' = FALSE
    /\ isRecording' = FALSE
    /\ lastOp' = Named("recognition.onend")
    /\ switchHistory' = <<>>
    /\ Record(<<>>, [tag |-> "recognition.onend", recording |-> isRecording,
                     after |-> Session(i)])
    /\ UNCHANGED <<variant, observed, activeTab, sourceLanguage, targetLanguage,
                   originalText, translatedText, isTranslating, isSpeaking,
                   speakTimeout, lastSpokenTranslation, hasSpokenOnce, inflight,
                   synth, speakCalls>>

(***************************************************************************)
(* Specification                                                           *)
(***************************************************************************)
Next ==
    \/ \E text \in Fragments : onTranscript(text)
    \/ clearOriginal
    \/ clearTranslation
    \/ clearTranscripts
    \/ \E l \in Languages : setSourceLanguage(l)
    \/ \E l \in Languages : setTargetLanguage(l)
    \/ switchRoles
    \/ \E tab \in Tabs : switchToTab(tab)
    \/ handleSpeak
    \/ \E req \in BagToSet(inflight), outcome \in Outcomes :
            translationResolved(req, outcome)
    \/ speakTimerFires
    \/ utteranceOnStart
    \/ utteranceOnEnd
    \/ \E kind \in SpeechErrors : utteranceOnError(kind)

Spec == Init /\ [][Next]_vars

(***************************************************************************)
(* Properties                                                              *)
(***************************************************************************)
\* a text that is empty or whitespace only
IsBlank(text) == \A i \in 1..Len(text) : text[i] = " "

\* every text translateText can resolve with for a request about text
ResultsFor(text) ==
    {TranslationResult([text |-> text, to |-> l, isSpeaking |-> FALSE], outcome) :
        l \in Languages, outcome \in Outcomes}

RoleSwitched == lastOp \in RoleSwitches

\* C1: stale-response discard. Once every translation request has resolved,
\* a translatedText on display for a non-blank originalText is a result for
\* that originalText, never the result for a text it has replaced.
C1_StaleResultDiscarded ==
    (inflight = EmptyBag /\ ~IsBlank(originalText) /\ translatedText # <<>>)
        => translatedText \in ResultsFor(originalText)

\* C2: SpeakGate. Between two consecutive changes of the value of
\* translatedText the Speech Output Collaborator is called at most once.
C2_SpeakAtMostOncePerTranslation == speakCalls <= 1

\* C3: speak gating. When handleSpeak has just spoken the translation, a
\* second handleSpeak makes no further speech call: the two invocations
\* together make exactly one.
C3_SecondSpeakIsNoOp ==
    [][(lastOp = "handleSpeak" /\ lastOp' = "handleSpeak")
            => speakCalls' = speakCalls]_vars

C3_Witness ==
    /\ lastOp = "handleSpeak"
    /\ speakCalls = 1
    /\ ~isSpeaking
    /\ ~IsBlank(translatedText)

\* C4: right after switchRoles / switchToTab both transcripts are empty.
C4_SwitchClearsTranscripts ==
    RoleSwitched => (originalText = <<>> /\ translatedText = <<>>)

\* a role switch made while a translation of the previous transcript was
\* still outstanding
C4_Witness ==
    /\ RoleSwitched
    /\ inflight # EmptyBag
    /\ originalText = <<>>

\* C5: while originalText is empty (or blank) translatedText is empty, also
\* when a request issued before the clearing resolves afterwards.
C5_NoTranslationWithoutOriginal == IsBlank(originalText) => translatedText = <<>>

\* C6: no remote translation call is ever issued for a blank text, and when
\* originalText becomes blank translatedText is set to "" in the same step
\* without a new request.
C6_BlankTextNeverSent ==
    /\ [](\A req \in BagToSet(inflight) : ~IsBlank(req.text))
    /\ [][(IsBlank(originalText') /\ originalText' # originalText)
            => (translatedText' = <<>>
                /\ \A req \in BagToSet(inflight') :
                        CopiesIn(req, inflight') <= CopiesIn(req, inflight))]_vars

\* a whitespace-only fragment arrived while an earlier request was outstanding
C6_Witness ==
    /\ originalText = <<" ">>
    /\ translatedText = <<>>
    /\ inflight # EmptyBag

\* C7: right after a role switch the SpeakGate records nothing as spoken.
C7_SwitchClearsSpeakGate ==
    RoleSwitched => (hasSpokenOnce = FALSE /\ lastSpokenTranslation = <<>>)

\* C8: toggle policy. One switchRoles swaps the pair; two in a row restore it.
C8_ToggleIsInvolution ==
    (lastOp = "switchRoles" /\ switchHistory # <<>>) =>
        /\ LET before == switchHistory[Len(switchHistory)]
           IN  sourceLanguage = before.target /\ targetLanguage = before.source
        /\ Len(switchHistory) = 2 =>
                /\ sourceLanguage = switchHistory[1].source
                /\ targetLanguage = switchHistory[1].target

\* two switchRoles in a row, from a pair of different languages
C8_Witness ==
    /\ lastOp = "switchRoles"
    /\ Len(switchHistory) = 2
    /\ sourceLanguage # targetLanguage

(***************************************************************************)
(* The tab page without manual language edits                              *)
(***************************************************************************)
InitTab == Init /\ variant = "tab"

NextTabNoEdits ==
    \/ \E text \in Fragments : onTranscript(text)
    \/ clearOriginal
    \/ clearTranslation
    \/ clearTranscripts
    \/ \E tab \in Tabs : switchToTab(tab)
    \/ handleSpeak
    \/ \E req \in BagToSet(inflight), outcome \in Outcomes :
            translationResolved(req, outcome)
    \/ utteranceOnStart
    \/ utteranceOnEnd
    \/ \E kind \in SpeechErrors : utteranceOnError(kind)

SpecTabNoEdits == InitTab /\ [][NextTabNoEdits]_vars

\* C9: tab policy, with no manual language edits (SpecTabNoEdits). Whenever
\* the Patient tab is active the language pair is the initial one, and
\* whenever the Provider tab is active it is the swapped one.
C9_PatientRestoresMapping ==
    /\ activeTab = "patient" =>
            (sourceLanguage = "en" /\ targetLanguage = "es")
    /\ activeTab = "provider" =>
            (sourceLanguage = "es" /\ targetLanguage = "en")

\* C10: tab policy. switchToTab("provider") made while the Provider tab is
\* already active leaves the language pair as it was.
C10_RepeatedProviderKeepsLanguages ==
    (/\ lastOp = "switchToTab"
     /\ activeTab = "provider"
     /\ switchHistory # <<>>
     /\ switchHistory[Len(switchHistory)].tab = "provider")
        => /\ sourceLanguage = switchHistory[Len(switchHistory)].source
           /\ targetLanguage = switchHistory[Len(switchHistory)].target

(***************************************************************************)
(* A capture session: the recorder, the role handlers, Clear All and the   *)
(* Speak button while one sentence is dictated; the speech engine has not  *)
(* begun to play and no timer has fired.  Every step is recorded.          *)
(***************************************************************************)
NextCapture ==
    \/ startRecording
    \/ stopRecording
    \/ \E i \in Objects : recognitionOnResult(i, <<"a">>)
    \/ \E i \in Objects : recognitionOnError(i)
    \/ \E i \in Objects : recognitionOnEnd(i)
    \/ switchRoles
    \/ \E tab \in Tabs : switchToTab(tab)
    \/ clearTranscripts
    \/ handleSpeak
    \/ \E req \in BagToSet(inflight), outcome \in Outcomes :
            translationResolved(req, outcome)

SpecCapture == Mounted(TRUE) /\ [][NextCapture]_vars

\* C11: clearTranscripts (Clear All) leaves originalText and translatedText
\* empty and the SpeakGate reset (hasSpokenOnce false, lastSpokenTranslation
\* empty), and does not change activeTab, sourceLanguage, targetLanguage or
\* isRecording.
C11_ClearAllEffectAndFrame ==
    [][(lastOp' = "clearTranscripts" /\ program' # program) =>
            /\ originalText' = <<>>
            /\ translatedText' = <<>>
            /\ hasSpokenOnce' = FALSE
            /\ lastSpokenTranslation' = <<>>
            /\ UNCHANGED <<activeTab, sourceLanguage, targetLanguage,
                           isRecording>>]_vars

\* Clear All pressed while recording in the swapped role, with a
\* translation outstanding and the translation already sent to the engine
C11_Witness ==
    /\ lastOp = "clearTranscripts"
    /\ isRecording
    /\ sourceLanguage = "es"
    /\ inflight # EmptyBag
    /\ synth # "idle"
    /\ originalText = <<>>

(***************************************************************************)
(* A dictation: fragments keep arriving, translations resolve, the timers  *)
(* fire and the engine plays; nobody touches the page.  Every step is      *)
(* recorded.                                                               *)
(***************************************************************************)
NextDictation ==
    \/ \E text \in Fragments : onTranscript(text)
    \/ \E req \in BagToSet(inflight), outcome \in Outcomes :
            translationResolved(req, outcome)
    \/ speakTimerFires
    \/ utteranceOnStart
    \/ utteranceOnEnd
    \/ \E kind \in SpeechErrors : utteranceOnError(kind)

SpecDictation == Mounted(TRUE) /\ [][NextDictation]_vars

\* the last step was the end of a remote call that failed
TranslationFailed ==
    lastEvent.tag = "translation" /\ lastEvent.outcome # "ok"

\* C12: translation failure fallback. When the remote call of a request
\* has failed, translateText has resolved with the text of that request,
\* translatedText is that text and equals the current originalText, and
\* isTranslating is false.
C12_FailureShowsOriginalText ==
    TranslationFailed =>
        /\ translatedText = lastEvent.request.text
        /\ translatedText = originalText
        /\ ~isTranslating

\* the fixed text the notice of a failure of each category carries
CategoryNotice(outcome) ==
    CASE outcome = "unauthorized" ->
            "Authentication failed. Please check API configuration."
      [] outcome = "ratelimited" ->
            "Too many requests. Please try again later."
      [] OTHER -> "Unable to translate text. Please try again."

CurrentTranslation ==
    IF variant = "toggle" THEN PlaceholderResult(originalText, targetLanguage, "ok")
    ELSE GroqResult(originalText, targetLanguage, "ok")

\* the last step set originalText, nothing has been notified or has
\* happened since, and the only request outstanding is the one issued for it
SetOnce ==
    /\ lastOp = "onTranscript"
    /\ lastEvent = NoEvent
    /\ ~IsBlank(originalText)
    /\ BagCardinality(inflight) = 1
    /\ \A req \in BagToSet(inflight) : req.text = originalText

\* C14: a non-blank originalText has been set and nothing has happened
\* since. When its translation then resolves without error, translatedText
\* becomes the translation of (originalText, sourceLanguage, targetLanguage)
\* as they are at that moment, and isTranslating, true until then, becomes
\* false.
C14_ResolvedTranslationIsCurrent ==
    [][(/\ SetOnce
        /\ inflight' = EmptyBag
        /\ lastEvent'.tag = "translation"
        /\ lastEvent'.outcome = "ok")
            => /\ translatedText' = CurrentTranslation'
               /\ isTranslating
               /\ ~isTranslating']_vars

\* the translation of the utterance on display, nothing outstanding
C14_Witness ==
    /\ lastEvent.tag = "translation"
    /\ lastEvent.outcome = "ok"
    /\ lastEvent.request.text = originalText
    /\ ~IsBlank(originalText)
    /\ translatedText = CurrentTranslation
    /\ inflight = EmptyBag
    /\ ~isTranslating

(***************************************************************************)
(* The recorder alone: the button, the language selector and role          *)
(* switches, and the events of the recognition sessions                    *)
(***************************************************************************)
NextRecorder ==
    \/ startRecording
    \/ stopRecording
    \/ \E i \in Objects : recognitionOnError(i)
    \/ \E i \in Objects : recognitionOnEnd(i)
    \/ \E l \in Languages : setSourceLanguage(l)
    \/ switchRoles
    \/ \E tab \in Tabs : switchToTab(tab)

SpecRecorder == Mounted(TRUE) /\ [][NextRecorder]_vars

\* C15: right after the recogniser's onerror or onend, isRecording and
\* isProcessing are false, whatever they were; onerror raises exactly one
\* notification, titled Recognition Error, and onend raises none, so an
\* error followed by its end event is notified once.
C15_CaptureErrorClearsRecording ==
    /\ lastEvent.tag = "recognition.onerror" =>
            /\ ~isRecording
            /\ ~isProcessing
            /\ Len(toasts) = 1
            /\ toasts[1].title = "Recognition Error"
    /\ lastEvent.tag = "recognition.onend" =>
            /\ ~isRecording
            /\ ~isProcessing
            /\ toasts = <<>>

\* the end event of a failed session arrives while the user is recording
\* again
C15_Witness ==
    /\ lastEvent.tag = "recognition.onend"
    /\ lastEvent.after = "failed"
    /\ lastEvent.recording
    /\ ~isRecording

\* C18: at most one recognition session is listening at any time.
C18_OneCaptureSession == Cardinality(OpenSessions) <= 1

\* C16: right after utterance.onerror isSpeaking is false; the handler
\* raises no notification when the cause is canceled or interrupted, and
\* exactly one, titled Speech Error, for any other cause.
C16_SpeechErrorHandling ==
    lastEvent.tag = "utterance.onerror" =>
        /\ ~isSpeaking
        /\ IF lastEvent.error \in {"canceled", "interrupted"}
           THEN toasts = <<>>
           ELSE /\ Len(toasts) = 1
                /\ toasts[1].title = "Speech Error"

\* the utterance that was being spoken is dropped by the cancel() of a
\* newer speak call, whose utterance is next
C16_Witness ==
    /\ lastEvent.tag = "utterance.onerror"
    /\ lastEvent.error = "interrupted"
    /\ synth = "pending"
    /\ ~isSpeaking
    /\ toasts = <<>>

\* C17: every speak call (by handleSpeak or by the debounce timer) is made
\* in a state where nothing is being spoken: isSpeaking is false and the
\* engine is not speaking an utterance.
C17_NoSpeakWhileSpeaking ==
    [][speakCalls' = speakCalls + 1 =>
            /\ ~isSpeaking
            /\ synth # "speaking"]_vars

\* the translation that has just resolved met the auto-speak condition of
\* Index.tsx:48-52
JustScheduled ==
    /\ variant = "toggle"
    /\ lastEvent.tag = "translation"
    /\ ~lastEvent.request.isSpeaking
    /\ ~IsBlank(translatedText)
    /\ translatedText # lastSpokenTranslation

\* C19: at most one auto-speak timer is pending at any time, and right after
\* a translation resolution that schedules a timer the pending timer is the
\* one for that translation: a timer that was pending before is cancelled.
C19_SingleDebounceTimer ==
    /\ Len(speakTimeout) <= 1
    /\ JustScheduled =>
            speakTimeout = <<[text |-> translatedText,
                              lang |-> lastEvent.request.to]>>

\* a resolution found a timer pending and replaced it with its own
C19_Witness ==
    /\ JustScheduled
    /\ lastEvent.pending = 1
    /\ lastEvent.outcome = "ok"
    /\ Len(speakTimeout) = 1
    /\ speakTimeout[1].text = translatedText

(***************************************************************************)
(* The auto-speak page under fair scheduling: every remote call comes to   *)
(* an end (fetch resolves or rejects), a timer that stays pending fires    *)
(* after its 400 ms, and the speech engine reports on the utterance it     *)
(* holds (start, end or error).  Nothing is assumed about the user.        *)
(***************************************************************************)
Requests == [isSpeaking : BOOLEAN, text : Fragments, to : Languages]

\* the remote call of request req comes to an end
resolves(req) == \E outcome \in Outcomes : translationResolved(req, outcome)

\* the speech engine reports on the utterance it holds
engineEvent ==
    \/ utteranceOnStart
    \/ utteranceOnEnd
    \/ \E kind \in SpeechErrors : utteranceOnError(kind)

InitAutoSpeak == Mounted(TRUE) /\ variant = "toggle"

SpecAutoSpeak ==
    /\ InitAutoSpeak
    /\ [][NextDictation]_vars
    /\ \A req \in Requests : WF_vars(resolves(req))
    /\ WF_vars(speakTimerFires)
    /\ WF_vars(engineEvent)

\* every text the translation hook of the toggle page can resolve with
AutoSpeakTexts ==
    {PlaceholderResult(text, l, outcome) :
        text \in Fragments, l \in Languages, outcome \in {"ok", "unavailable"}}

\* C20: auto-speak page. A translation that has just resolved with a
\* non-blank text T different from the last spoken text is eventually
\* spoken (T becomes the last spoken text), unless translatedText changes
\* to another value first.
C20_EligibleTranslationEventuallySpoken ==
    \A T \in AutoSpeakTexts :
        (/\ lastEvent.tag = "translation"
         /\ translatedText = T
         /\ ~IsBlank(T)
         /\ T # lastSpokenTranslation)
            ~> (lastSpokenTranslation = T \/ translatedText # T)

\* the triple the translation is derived from
Triple == <<originalText, sourceLanguage, targetLanguage>>

\* the requests the effect can issue for the current originalText and
\* targetLanguage
CurrentRequests ==
    {[text |-> originalText, to |-> targetLanguage, isSpeaking |-> spk] :
        spk \in BOOLEAN}

\* every text a request for the current originalText and targetLanguage
\* can resolve with
CurrentResults ==
    {TranslationResult(req, outcome) :
        req \in CurrentRequests, outcome \in Outcomes}

\* a step that changes the triple to one with a non-blank originalText
\* issues a request for the new triple
RecomputationTriggered ==
    [][(Triple' # Triple /\ ~IsBlank(originalText'))
            => \E req \in CurrentRequests' :
                    CopiesIn(req, inflight') = CopiesIn(req, inflight) + 1]_vars

\* with no request outstanding, a translation on display for a non-blank
\* originalText is a result for the current originalText and targetLanguage
TranslationIsCurrent ==
    (inflight = EmptyBag /\ ~IsBlank(originalText) /\ translatedText # <<>>)
        => translatedText \in CurrentResults

\* C21: while originalText is non-blank every change of originalText,
\* sourceLanguage or targetLanguage issues a translation request for the new
\* triple, and once the last request has resolved translatedText is a
\* result for the current triple, never one computed for an earlier triple.
C21_RecomputedForCurrentTriple ==
    RecomputationTriggered /\ []TranslationIsCurrent

\* C22: every call of speak is made with the state current at the call:
\* its text is the translatedText on display (hence non-blank) and its
\* language is the current targetLanguage.
C22_SpeakUsesCurrentState ==
    lastEvent.tag = "speak" =>
        /\ lastEvent.text = translatedText
        /\ ~IsBlank(lastEvent.text)
        /\ lastEvent.lang = targetLanguage

\* C23: isTranslating is true exactly while at least one translation
\* request is outstanding.
C23_IsTranslatingIffOutstanding == isTranslating <=> inflight # EmptyBag

(***************************************************************************)
(* The auto-speak page after a single dictated utterance: the user does    *)
(* nothing else, every remote call comes to an end, a pending timer fires, *)
(* every utterance starts and ends                                         *)
(***************************************************************************)
\* the one fragment the recogniser delivers, on the freshly mounted page
firstTranscript ==
    /\ originalText = <<>>
    /\ translatedText = <<>>
    /\ inflight = EmptyBag
    /\ lastEvent = NoEvent
    /\ \E text \in Fragments : ~IsBlank(text) /\ onTranscript(text)

NextOneUtterance ==
    \/ firstTranscript
    \/ \E req \in BagToSet(inflight), outcome \in Outcomes :
            translationResolved(req, outcome)
    \/ speakTimerFires
    \/ utteranceOnStart
    \/ utteranceOnEnd

SpecOneUtterance ==
    /\ InitAutoSpeak
    /\ [][NextOneUtterance]_vars
    /\ \A req \in Requests : WF_vars(resolves(req))
    /\ WF_vars(speakTimerFires)
    /\ WF_vars(utteranceOnStart \/ utteranceOnEnd)

\* nothing outstanding, nothing pending, nothing spoken
Quiescent ==
    /\ inflight = EmptyBag
    /\ speakTimeout = <<>>
    /\ ~isSpeaking
    /\ synth = "idle"

\* C24: auto-speak page, one utterance and no further input. The page
\* comes to rest in a state with no request outstanding, no timer pending
\* and nothing spoken, and once the translation has been spoken no timer
\* is scheduled again: at most one speech call is made.
C24_OneUtteranceComesToRest ==
    /\ (originalText # <<>>) ~> []Quiescent
    /\ [](lastSpokenTranslation # <<>> => speakTimeout = <<>>)

(***************************************************************************)
(* The recorder under fair scheduling: the user who holds the record       *)
(* control releases it, and the engine delivers the end event of a session *)
(* that was stopped or has failed.  A session that is listening may go on  *)
(* listening.                                                              *)
(***************************************************************************)
\* onend of a session that was stopped or has reported an error
stoppedSessionEnds ==
    \E i \in Objects :
        /\ Session(i) \in {"stopping", "failed"}
        /\ recognitionOnEnd(i)

SpecRelease ==
    /\ Mounted(TRUE)
    /\ [][NextRecorder]_vars
    /\ WF_vars(stopRecording)
    /\ WF_vars(stoppedSessionEnds)

\* C25: while isRecording is true the object in recognitionRef is the one
\* whose session was started, so that releasing the control stops it, and
\* isRecording eventually becomes false.
C25_ReleaseEndsRecording ==
    /\ [](isRecording => recognition \in {"running", "stopping"})
    /\ isRecording ~> ~isRecording

====
